---- MODULE Spec2Model ----
(***************************************************************************)
(* A model of utilhub.ProgressBar (src/utilhub/progressBar.go): the shared *)
(* counter, the throttle timer, the unbuffered print channel, the renderer *)
(* goroutine and the goroutines that call UpdateBar, AddSpecificTimes and  *)
(* Complete.  Every access to shared memory is one step (a mutex          *)
(* operation is taken together with the access next to it), so the         *)
(* interleavings of the model are the interleavings of the goroutines.     *)
(***************************************************************************)
EXTENDS Integers, Sequences, FiniteSets, TLC

\* ----------------------------------------------------------------- bounds
NThreads == 2
MaxCalls == 2
MaxUpdateBarCalls == 3
MaxCompletes == 2
MaxTotal == 3
MaxBarLength == 3
MaxSteps == 2
MaxReports == 1
MaxWaits == 2
MaxSets == 2
MaxReloads == 2

\* ------------------------------------------------------ program constants
DefaultUpdateInterval == 1000

Threads == 1..NThreads
Waits == 1..MaxWaits
Totals == {1, NThreads, MaxTotal}
BarLengths == {1, MaxBarLength}
StepValues == {1, MaxSteps}
UpdateIntervals == {0, DefaultUpdateInterval}
\* The arguments of WithTimeControl(updateInterval int) a sequential program passes.
TimeControls == UpdateIntervals \cup {-1}

VARIABLES
    total,              \* pb.total
    barLength,          \* pb.barLength
    updateInterval,     \* pb.updateInterval
    currentProcess,     \* pb.currentProcess
    lastFilledLength,   \* pb.lastFilledLength
    complete,           \* pb.complete
    endTime,            \* pb.endTime: "zero" or "set"
    ticker,             \* pb.ticker: "nil", "armed", "fired" or "drained"
    mu,                 \* pb.mu: 0 when unlocked, else the holder
    printChannel,       \* pb.printChannel: "open" or "closed"
    pc,                 \* pc[t]: where goroutine t stands
    local,              \* local[t]: filledLength and percentage of t's call
    ncalls,             \* ncalls[t]: update calls goroutine t has started
    printer,            \* the ListenPrinter goroutine: "off", "recv", "signal", "done"
    waiter,             \* waiter[w]: the goroutine of the w-th WaitForPrinterStop call:
                        \* "none", "recv", "close" or "ready"
    shown,              \* the frame ListenPrinter printed last
    panicked,           \* "none", or the runtime panic that ended the program
    callers,            \* how calls are made: "sequential", "concurrent" or "joined"
    h,                  \* history of the run, read by the properties only
    configFile,         \* the JSON file of the configuration: whether it exists, and the
                        \* text of each key's value ("" when the key is not in the file)
    tags,               \* the `default` tag of each field of the struct ("" when it has none)
    unitTestConfig,     \* the package variable _unitTestConfig
    ones,               \* the package variable _ones (sync.Once): "fresh" or "done"
    configParseErr,     \* the package variable _configParseErr
    stage,              \* package initialisation: "load", "parsed", "failed", "ready", "panicked"
    calls               \* calls of SetRandomTotalCount and ForceReloadConfig made so far

config == <<total, barLength, updateInterval, callers>>
fields == <<currentProcess, lastFilledLength, complete, endTime, ticker, mu, printChannel>>
bar == <<total, barLength, updateInterval, callers, currentProcess, lastFilledLength, complete,
         endTime, ticker, mu, printChannel, pc, local, ncalls, printer, waiter, shown, panicked, h>>
pkg == <<configFile, tags, unitTestConfig, ones, configParseErr, stage, calls>>
vars == <<total, barLength, updateInterval, callers, currentProcess, lastFilledLength, complete,
          endTime, ticker, mu, printChannel, pc, local, ncalls, printer, waiter, shown, panicked, h,
          configFile, tags, unitTestConfig, ones, configParseErr, stage, calls>>

\* ---------------------------------------------------------- configuration
\* The fields of BptreeUnitTestConfig that the package reads and writes:
\* Record.IsInsideProject (bool), Record.TestRecordPath (string),
\* Parameters.RandomTotalCount (int64) and Parameters.BpWidth ([]int).  The nested
\* structs are walked by the recursion of applyDefaults, which visits each of these
\* fields once; the model keeps them in one record.
ZeroConfig ==
    [IsInsideProject |-> FALSE, TestRecordPath |-> "", RandomTotalCount |-> 0,
     BpWidth |-> <<>>]

\* The text of a key's value in the file, and the value json.Unmarshal decodes.
BoolTexts == {"true", "false"}
NumberTexts == {"0", "3"}
StringTexts == {"\"\"", "\"records\""}
JSONBool(text) == text = "true"
JSONNumber(text) == CHOOSE n \in 0..9 : ToString(n) = text
JSONString(text) == IF text = "\"\"" THEN "" ELSE "records"

\* json.Unmarshal(file, cfg) (line 81): a key of the file overwrites its field, a
\* field whose key is not in the file keeps its value.
Unmarshal(file, cfg) ==
    [cfg EXCEPT
        !.IsInsideProject = IF file.IsInsideProject = "" THEN @
                            ELSE JSONBool(file.IsInsideProject),
        !.TestRecordPath = IF file.TestRecordPath = "" THEN @
                           ELSE JSONString(file.TestRecordPath),
        !.RandomTotalCount = IF file.RandomTotalCount = "" THEN @
                             ELSE JSONNumber(file.RandomTotalCount)]

\* strconv.ParseBool and strconv.ParseInt(value, 10, 64) of setFieldValue (lines
\* 149-163), on the tags of the model.
ParseBool(value) == value \in {"1", "t", "T", "TRUE", "true", "True"}
ParseInt(value) == CHOOSE n \in 0..9 : ToString(n) = value

\* One field in the loop of applyDefaults (lines 115-130): no tag, skip; a value
\* that is not the zero value of the type, skip; otherwise set the field from the tag.
ApplyDefaultBool(field, defaultTag) ==
    IF defaultTag = "" THEN field
    ELSE IF field # FALSE THEN field
    ELSE ParseBool(defaultTag)
ApplyDefaultString(field, defaultTag) ==
    IF defaultTag = "" THEN field
    ELSE IF field # "" THEN field
    ELSE defaultTag
ApplyDefaultInt(field, defaultTag) ==
    IF defaultTag = "" THEN field
    ELSE IF field # 0 THEN field
    ELSE ParseInt(defaultTag)

\* applyDefaults (lines 94-135).
applyDefaults(cfg) ==
    [cfg EXCEPT
        !.IsInsideProject = ApplyDefaultBool(@, tags.IsInsideProject),
        !.TestRecordPath = ApplyDefaultString(@, tags.TestRecordPath),
        !.RandomTotalCount = ApplyDefaultInt(@, tags.RandomTotalCount)]

\* _parseDefault (lines 63-92): a file that cannot be read returns the error before
\* any default is applied.
parseDefault(file, cfg) ==
    IF ~file.exists
    THEN [cfg |-> cfg, err |-> "no such file or directory"]
    ELSE [cfg |-> applyDefaults(Unmarshal(file, cfg)), err |-> "nil"]

\* filepath.Join(projectPath, path), and lines 49-54 of ParseDefault.
ProjectPath == "/go-algorithm"
Join(dir, path) == IF path = "" THEN dir ELSE dir \o "/" \o path
AfterParse(cfg) ==
    [cfg EXCEPT
        !.TestRecordPath = IF cfg.IsInsideProject THEN Join(ProjectPath, @) ELSE @,
        !.BpWidth = <<3, 6, 7, 8, 12>>]

\* ParseDefault (lines 22-61): the body runs inside _ones.Do, so it runs for the
\* first call only; a later call returns the nil error and leaves cfg as it is.
ParseDefault(cfg, once) ==
    IF once = "done"
    THEN [cfg |-> cfg, err |-> "nil"]
    ELSE LET r == parseDefault(configFile, cfg)
         IN  IF r.err # "nil" THEN r ELSE [cfg |-> AfterParse(r.cfg), err |-> "nil"]

\* GetDefaultConfig and GetRandomTotalCount (defaultConfig_daily.go, lines 24-34).
GetDefaultConfig == unitTestConfig
GetRandomTotalCount == unitTestConfig.RandomTotalCount

NoCalls == [sets |-> 0, reloads |-> 0]

\* The files and the tags of the model.  A file that does not exist has no key.
ConfigFiles ==
    {f \in [exists : BOOLEAN,
            IsInsideProject : {""} \cup BoolTexts,
            TestRecordPath : {""} \cup StringTexts,
            RandomTotalCount : {""} \cup NumberTexts] :
        ~f.exists => (f.IsInsideProject = "" /\ f.TestRecordPath = ""
                      /\ f.RandomTotalCount = "")}
ConfigTags ==
    [IsInsideProject : {"", "true"}, TestRecordPath : {"", "testdata"},
     RandomTotalCount : {"", "7"}]
CountValues == {0, 9}

\* var _configParseErr = ParseDefault(&_unitTestConfig) (defaultConfig_daily.go, line
\* 7), first part: _ones.Do runs the body, which calls _parseDefault (line 42).
ParseDefault_Parse ==
    /\ stage = "load"
    /\ ones' = "done"
    /\ LET r == parseDefault(configFile, unitTestConfig)
       IN  /\ unitTestConfig' = r.cfg
           /\ configParseErr' = r.err
           /\ stage' = IF r.err = "nil" THEN "parsed" ELSE "failed"
    /\ UNCHANGED <<bar, configFile, tags, calls>>

\* Second part: lines 49-54 of ParseDefault, after which init() finds no error.
ParseDefault_Finish ==
    /\ stage = "parsed"
    /\ unitTestConfig' = AfterParse(unitTestConfig)
    /\ stage' = "ready"
    /\ UNCHANGED <<bar, configFile, tags, ones, configParseErr, calls>>

\* func init() { if _configParseErr != nil { panic(_configParseErr) } } (lines 11-16).
PackageInit_Panic ==
    /\ stage = "failed"
    /\ stage' = "panicked"
    /\ UNCHANGED <<bar, configFile, tags, unitTestConfig, ones, configParseErr, calls>>

\* func SetRandomTotalCount(value int64) (lines 28-30).
SetRandomTotalCount(value) ==
    /\ stage = "ready"
    /\ calls.sets < MaxSets
    /\ unitTestConfig' = [unitTestConfig EXCEPT !.RandomTotalCount = value]
    /\ calls' = [calls EXCEPT !.sets = @ + 1]
    /\ UNCHANGED <<bar, configFile, tags, ones, configParseErr, stage>>

\* func ForceReloadConfig() (lines 19-22): _unitTestConfig = BptreeUnitTestConfig{},
\* then _configParseErr = ParseDefault(&_unitTestConfig).
ForceReloadConfig ==
    /\ stage = "ready"
    /\ calls.reloads < MaxReloads
    /\ LET r == ParseDefault(ZeroConfig, ones)
       IN  /\ unitTestConfig' = r.cfg
           /\ configParseErr' = r.err
    /\ ones' = "done"
    /\ calls' = [calls EXCEPT !.reloads = @ + 1]
    /\ UNCHANGED <<bar, configFile, tags, stage>>

\* The package after its initialisation, with a file that sets no key and a struct
\* without tags: the state in which a program builds its progress bars.
PackageReady ==
    /\ configFile = [exists |-> TRUE, IsInsideProject |-> "", TestRecordPath |-> "",
                     RandomTotalCount |-> ""]
    /\ tags = [IsInsideProject |-> "", TestRecordPath |-> "", RandomTotalCount |-> ""]
    /\ unitTestConfig = AfterParse(ZeroConfig)
    /\ ones = "done"
    /\ configParseErr = "nil"
    /\ stage = "ready"
    /\ calls = NoCalls

\* ------------------------------------------------------------- arithmetic
\* A float64 in the model is an exact fraction <<numerator, denominator>>.
Frac(n, d) == <<n, d>>
FracLeq(a, b) == a[1] * b[2] <= b[1] * a[2]
FracEq(a, b) == a[1] * b[2] = b[1] * a[2]
FracMul(a, k) == <<a[1] * k, a[2]>>
\* int(f): truncation of a non-negative fraction.
FracInt(a) == a[1] \div a[2]
Hundred == Frac(100, 1)

\* barMessage
Message(f, p) == [filledLength |-> f, percentage |-> p]
\* The locals of a call: its steps argument, filledLength and percentage.
Locals(s, f, p) == [steps |-> s, filledLength |-> f, percentage |-> p]
NoLocals == Locals(0, 0, Frac(0, 1))
NoFrame == [filledLength |-> -1, percentage |-> Frac(0, 1)]

\* atomic.AddUint32: the sum wraps at 2^32, which the counters of this model
\* (at most MaxTotal + MaxCalls * MaxSteps) never come near.
AtomicAddUint32(v, delta) == v + delta

\* progress := float64(pb.currentProcess) / float64(pb.total)
UpdateBarProgress(cur, tot) == Frac(cur, tot)

\* progress := float64(pb.currentProcess / pb.total)
AddSpecificTimesProgress(cur, tot) == Frac(cur \div tot, 1)

\* filledLength := int(progress * float64(pb.barLength))
FilledLength(progress, len) == FracInt(FracMul(progress, len))

\* A percentage left as computed, without the cap at 100.
Percentage_Uncapped(progress) == FracMul(progress, 100)

\* percentage := progress * 100; if percentage > 100 { percentage = 100 }
Percentage(progress) ==
    LET p == FracMul(progress, 100)
    IN  IF ~FracLeq(p, Hundred) THEN Hundred ELSE p

\* The ceiling check one short: a call made at total - 1 returns without counting.
UpdateBarAtCeiling_OffByOne(cur, tot) == cur + 1 >= tot

\* if atomic.LoadUint32(&pb.currentProcess) == pb.total { return }
UpdateBarAtCeiling(cur, tot) == cur = tot

\* A ceiling check that lets a counter equal to total through.
AddSpecificTimesAtCeiling_Strict(cur, tot) == cur > tot

\* if atomic.LoadUint32(&pb.currentProcess) >= pb.total { ...; return }
AddSpecificTimesAtCeiling(cur, tot) == cur >= tot

\* A select that does not wait for the deadline: an armed timer counts as fired.
TickerReady_Unthrottled(tk) == tk \in {"armed", "fired"}

\* case <-pb.ticker: a receive is ready only on a timer that has fired.
TickerReady(tk) == tk = "fired"

\* An update that takes the select whether or not the fill has changed.
FillChanged_Always(filledLength, last) == filledLength = filledLength

\* if filledLength != pb.lastFilledLength (lines 235 and 318)
FillChanged(filledLength, last) == filledLength # last

\* A constructor that arms the timer whatever the interval.
InitialTicker_Always(interval) == "armed"

\* if pb.updateInterval > 0 { pb.ticker = time.After(...) } (lines 141-144): otherwise
\* pb.ticker stays the nil channel.
InitialTicker(interval) == IF interval > 0 THEN "armed" ELSE "nil"

\* ---------------------------------------------------------------- history
Running == panicked = "none"
Idle(t) == pc[t] = "idle"
CallsStarted == LET Sum[n \in 0..NThreads] ==
                        IF n = 0 THEN 0 ELSE ncalls[n] + Sum[n - 1]
                IN  Sum[NThreads]

AllIdle == \A t \in Threads : Idle(t)

\* A call starts: the history counts the steps it asks for (UpdateBar asks for one).
Started(t, kind, steps) ==
    [h EXCEPT !.usedUpdateBar = @ \/ kind = "UpdateBar",
              !.usedAddSpecificTimes = @ \/ kind = "AddSpecificTimes",
              !.sumSteps = @ + steps,
              !.completeCalls = @ + (IF kind = "Complete" THEN 1 ELSE 0)]

NoHistory ==
    [usedUpdateBar |-> FALSE, usedAddSpecificTimes |-> FALSE,
     sumSteps |-> 0, completeCalls |-> 0, completeReturns |-> 0,
     endTimeWrites |-> 0, flips |-> 0, closes |-> 0, finalFrames |-> 0,
     unspent |-> 0, lastKind |-> "none", signals |-> 0,
     reports |-> 0, reportError |-> "none", reportPrinted |-> FALSE,
     reportCompleted |-> -1, reportEndTime |-> "none", finishBarCloses |-> 0]

\* ------------------------------------------------------------------- Init
\* NewProgressBar: the state of a bar right after construction.
Init ==
    /\ total \in Totals
    /\ barLength \in BarLengths
    /\ updateInterval \in UpdateIntervals
    /\ callers \in {"sequential", "concurrent"}
    /\ currentProcess = 0
    /\ lastFilledLength = 0
    /\ complete = FALSE
    /\ endTime = "zero"
    /\ ticker = InitialTicker(updateInterval)
    /\ mu = 0
    /\ printChannel = "open"
    /\ pc = [t \in Threads |-> "idle"]
    /\ local = [t \in Threads |-> NoLocals]
    /\ ncalls = [t \in Threads |-> 0]
    /\ printer = "off"
    /\ waiter = [w \in Waits |-> "none"]
    /\ shown = NoFrame
    /\ panicked = "none"
    /\ h = NoHistory
    /\ PackageReady


\* ---------------------------------------------------------------- helpers
Goto(t, label) == pc' = [pc EXCEPT ![t] = label]
Return(t) == /\ pc' = [pc EXCEPT ![t] = "idle"]
             /\ local' = [local EXCEPT ![t] = NoLocals]
\* callers = "sequential": one goroutine makes every call.
MayCall(t) == /\ Running
              /\ Idle(t)
              /\ callers = "sequential" => t = 1
\* callers = "joined": one goroutine launches the producers in turn, each making
\* one call, and calls Complete once, after all of them have returned.
MayProduce(t) == /\ MayCall(t)
                 /\ callers = "joined" => (/\ h.completeCalls = 0
                                           /\ ncalls[t] = 0
                                           /\ \A u \in 1..(t - 1) : ncalls[u] > 0)
MayUpdate(t) == MayProduce(t) /\ CallsStarted < MaxCalls
\* A history made of UpdateBar calls alone may run to MaxUpdateBarCalls calls.
MayUpdateBar(t) ==
    \/ MayUpdate(t)
    \/ /\ MayProduce(t)
       /\ ~h.usedAddSpecificTimes
       /\ h.completeCalls = 0
       /\ CallsStarted < MaxUpdateBarCalls
MayComplete(t) == /\ MayCall(t)
                  /\ h.completeCalls < MaxCompletes
                  /\ callers = "joined" =>
                         (t = 1 /\ h.completeCalls = 0 /\ \A u \in Threads : Idle(u))
At(t, label) == Running /\ pc[t] = label

\* -------------------------------------------------------------- UpdateBar
\* The call and its first load (line 207).
UpdateBar_Call(t) ==
    /\ MayUpdateBar(t)
    /\ ncalls' = [ncalls EXCEPT ![t] = @ + 1]
    /\ h' = Started(t, "UpdateBar", 1)
    /\ IF UpdateBarAtCeiling(currentProcess, total)
       THEN UNCHANGED pc
       ELSE Goto(t, "ub_above")
    /\ UNCHANGED <<config, pkg, fields, local, printer, waiter, shown, panicked>>

\* The second load (line 212).
UpdateBar_Above(t) ==
    /\ At(t, "ub_above")
    /\ IF currentProcess > total THEN Goto(t, "ub_cap") ELSE Goto(t, "ub_lock")
    /\ UNCHANGED <<config, pkg, fields, local, ncalls, printer, waiter, shown, panicked, h>>

\* atomic.StoreUint32(&pb.currentProcess, pb.total); return (lines 213-214).
UpdateBar_Cap(t) ==
    /\ At(t, "ub_cap")
    /\ currentProcess' = total
    /\ Return(t)
    /\ UNCHANGED <<config, pkg, lastFilledLength, complete, endTime, ticker, mu, printChannel,
                   ncalls, printer, waiter, shown, panicked, h>>

\* pb.mu.Lock(); atomic.AddUint32(&pb.currentProcess, 1) (lines 218-221).  Taking
\* the mutex is seen by no other goroutine until the next access to shared memory,
\* so the two are one step.
UpdateBar_Add(t) ==
    /\ At(t, "ub_lock")
    /\ mu = 0
    /\ mu' = t
    /\ currentProcess' = AtomicAddUint32(currentProcess, 1)
    /\ Goto(t, "ub_calc")
    /\ UNCHANGED <<config, pkg, lastFilledLength, complete, endTime, ticker, printChannel,
                   local, ncalls, printer, waiter, shown, panicked, h>>

\* progress, filledLength and percentage from one read of the counter (lines 225-232).
UpdateBar_Calc(t) ==
    /\ At(t, "ub_calc")
    /\ LET progress == UpdateBarProgress(currentProcess, total)
       IN  local' = [local EXCEPT ![t] =
                        Locals(0, FilledLength(progress, barLength), Percentage(progress))]
    /\ Goto(t, "ub_select")
    /\ UNCHANGED <<config, pkg, fields, ncalls, printer, waiter, shown, panicked, h>>

\* if filledLength != pb.lastFilledLength { select { case <-pb.ticker: ... default: } }
\* (lines 235-238): the receive takes the timer's one value.  Otherwise (lines
\* 247-254) the call leaves the select and unlocks the mutex.
UpdateBar_Select(t) ==
    /\ At(t, "ub_select")
    /\ IF FillChanged(local[t].filledLength, lastFilledLength) /\ TickerReady(ticker)
       THEN /\ ticker' = "drained"
            /\ h' = [h EXCEPT !.unspent = @ - 1]
            /\ Goto(t, "ub_send")
            /\ UNCHANGED mu
       ELSE /\ mu' = 0
            /\ Goto(t, "ub_final")
            /\ UNCHANGED <<ticker, h>>
    /\ UNCHANGED <<config, pkg, currentProcess, lastFilledLength, complete, endTime,
                   printChannel, local, ncalls, printer, waiter, shown, panicked>>

\* An emitter that returns without pb.mu.Unlock().
UpdateBar_Sent_KeepsLock(t) ==
    /\ At(t, "ub_sent")
    /\ lastFilledLength' = local[t].filledLength
    /\ ticker' = "armed"
    /\ Goto(t, "ub_final")
    /\ UNCHANGED <<config, pkg, currentProcess, complete, endTime, mu, printChannel,
                   local, ncalls, printer, waiter, shown, panicked, h>>

\* After the send of line 240 (see ListenPrinter_Receive): lines 243-254.
UpdateBar_Sent(t) ==
    /\ At(t, "ub_sent")
    /\ lastFilledLength' = local[t].filledLength
    /\ ticker' = "armed"
    /\ mu' = 0
    /\ Goto(t, "ub_final")
    /\ UNCHANGED <<config, pkg, currentProcess, complete, endTime, printChannel,
                   local, ncalls, printer, waiter, shown, panicked, h>>

\* if atomic.LoadUint32(&pb.currentProcess) == pb.total (line 257).
UpdateBar_Final(t) ==
    /\ At(t, "ub_final")
    /\ IF currentProcess = total
       THEN Goto(t, "ub_stop") /\ UNCHANGED local
       ELSE Return(t)
    /\ UNCHANGED <<config, pkg, fields, ncalls, printer, waiter, shown, panicked, h>>

\* The update that reaches total completing the bar itself.
UpdateBar_Stop_Completes(t) ==
    /\ At(t, "ub_stop")
    /\ ticker' = "nil"
    /\ complete' = TRUE
    /\ endTime' = "set"
    /\ Return(t)
    /\ UNCHANGED <<config, pkg, currentProcess, lastFilledLength, mu, printChannel,
                   ncalls, printer, waiter, shown, panicked, h>>

\* atomic.StorePointer(&pb.ticker, nil) (line 260), then the call returns.
UpdateBar_Stop(t) ==
    /\ At(t, "ub_stop")
    /\ ticker' = "nil"
    /\ Return(t)
    /\ UNCHANGED <<config, pkg, currentProcess, lastFilledLength, complete, endTime, mu,
                   printChannel, ncalls, printer, waiter, shown, panicked, h>>

\* ------------------------------------------------------- AddSpecificTimes
\* The call and its load (line 294).
AddSpecificTimes_Call(t, steps) ==
    /\ MayUpdate(t)
    /\ ncalls' = [ncalls EXCEPT ![t] = @ + 1]
    /\ h' = Started(t, "AddSpecificTimes", steps)
    /\ local' = [local EXCEPT ![t] = Locals(steps, 0, Frac(0, 1))]
    /\ IF AddSpecificTimesAtCeiling(currentProcess, total)
       THEN Goto(t, "as_cap")
       ELSE Goto(t, "as_lock")
    /\ UNCHANGED <<config, pkg, fields, printer, waiter, shown, panicked>>

\* atomic.StoreUint32(&pb.currentProcess, pb.total); return (lines 295-296).
AddSpecificTimes_Cap(t) ==
    /\ At(t, "as_cap")
    /\ currentProcess' = total
    /\ Return(t)
    /\ UNCHANGED <<config, pkg, lastFilledLength, complete, endTime, ticker, mu, printChannel,
                   ncalls, printer, waiter, shown, panicked, h>>

\* pb.mu.Lock(); atomic.AddUint32(&pb.currentProcess, steps) (lines 300-303).
AddSpecificTimes_Add(t) ==
    /\ At(t, "as_lock")
    /\ mu = 0
    /\ mu' = t
    /\ currentProcess' = AtomicAddUint32(currentProcess, local[t].steps)
    /\ Goto(t, "as_calc")
    /\ UNCHANGED <<config, pkg, lastFilledLength, complete, endTime, ticker, printChannel,
                   local, ncalls, printer, waiter, shown, panicked, h>>

\* progress, filledLength and percentage from one read of the counter (lines 308-315).
AddSpecificTimes_Calc(t) ==
    /\ At(t, "as_calc")
    /\ LET progress == AddSpecificTimesProgress(currentProcess, total)
       IN  local' = [local EXCEPT ![t] =
                        Locals(0, FilledLength(progress, barLength), Percentage(progress))]
    /\ Goto(t, "as_select")
    /\ UNCHANGED <<config, pkg, fields, ncalls, printer, waiter, shown, panicked, h>>

\* The select of lines 318-321; otherwise lines 330-337.
AddSpecificTimes_Select(t) ==
    /\ At(t, "as_select")
    /\ IF FillChanged(local[t].filledLength, lastFilledLength) /\ TickerReady(ticker)
       THEN /\ ticker' = "drained"
            /\ h' = [h EXCEPT !.unspent = @ - 1]
            /\ Goto(t, "as_send")
            /\ UNCHANGED mu
       ELSE /\ mu' = 0
            /\ Goto(t, "as_final")
            /\ UNCHANGED <<ticker, h>>
    /\ UNCHANGED <<config, pkg, currentProcess, lastFilledLength, complete, endTime,
                   printChannel, local, ncalls, printer, waiter, shown, panicked>>

\* After the send of line 323 (see ListenPrinter_Receive): lines 326-337.
AddSpecificTimes_Sent(t) ==
    /\ At(t, "as_sent")
    /\ lastFilledLength' = local[t].filledLength
    /\ ticker' = "armed"
    /\ mu' = 0
    /\ Goto(t, "as_final")
    /\ UNCHANGED <<config, pkg, currentProcess, complete, endTime, printChannel,
                   local, ncalls, printer, waiter, shown, panicked, h>>

\* if atomic.LoadUint32(&pb.currentProcess) == pb.total (line 340).
AddSpecificTimes_Final(t) ==
    /\ At(t, "as_final")
    /\ IF currentProcess = total
       THEN Goto(t, "as_stop") /\ UNCHANGED local
       ELSE Return(t)
    /\ UNCHANGED <<config, pkg, fields, ncalls, printer, waiter, shown, panicked, h>>

\* atomic.StorePointer(&pb.ticker, nil) (line 343), then the call returns.
AddSpecificTimes_Stop(t) ==
    /\ At(t, "as_stop")
    /\ ticker' = "nil"
    /\ Return(t)
    /\ UNCHANGED <<config, pkg, currentProcess, lastFilledLength, complete, endTime, mu,
                   printChannel, ncalls, printer, waiter, shown, panicked, h>>

\* --------------------------------------------------------------- Complete
\* The call and its read of pb.complete (line 267).
Complete_Call(t) ==
    /\ MayComplete(t)
    /\ IF complete
       THEN /\ h' = [Started(t, "Complete", 0) EXCEPT !.completeReturns = @ + 1]
            /\ UNCHANGED pc
       ELSE /\ h' = Started(t, "Complete", 0)
            /\ Goto(t, "c_check")
    /\ UNCHANGED <<config, pkg, fields, local, ncalls, printer, waiter, shown, panicked>>

\* if atomic.LoadUint32(&pb.currentProcess) <= pb.total (line 269).
Complete_Check(t) ==
    /\ At(t, "c_check")
    /\ IF currentProcess <= total THEN Goto(t, "c_end") ELSE Goto(t, "c_stop")
    /\ UNCHANGED <<config, pkg, fields, local, ncalls, printer, waiter, shown, panicked, h>>

\* pb.endTime = time.Now().In(pb.location) (line 271).
Complete_EndTime(t) ==
    /\ At(t, "c_end")
    /\ endTime' = "set"
    /\ h' = [h EXCEPT !.endTimeWrites = @ + 1]
    /\ Goto(t, "c_store")
    /\ UNCHANGED <<config, pkg, currentProcess, lastFilledLength, complete, ticker, mu,
                   printChannel, local, ncalls, printer, waiter, shown, panicked>>

\* atomic.StoreUint32(&pb.currentProcess, pb.total) (line 274).
Complete_Store(t) ==
    /\ At(t, "c_store")
    /\ currentProcess' = total
    /\ Goto(t, "c_send")
    /\ UNCHANGED <<config, pkg, lastFilledLength, complete, endTime, ticker, mu, printChannel,
                   local, ncalls, printer, waiter, shown, panicked, h>>

\* After the send of line 277 (see ListenPrinter_Receive): pb.complete = true (line 280).
Complete_Flag(t) ==
    /\ At(t, "c_sent")
    /\ complete' = TRUE
    /\ h' = [h EXCEPT !.flips = @ + (IF complete THEN 0 ELSE 1)]
    /\ Goto(t, "c_stop")
    /\ UNCHANGED <<config, pkg, currentProcess, lastFilledLength, endTime, ticker, mu,
                   printChannel, local, ncalls, printer, waiter, shown, panicked>>

\* pb.ticker = nil (line 284).
Complete_Stop(t) ==
    /\ At(t, "c_stop")
    /\ ticker' = "nil"
    /\ Goto(t, "c_close")
    /\ UNCHANGED <<config, pkg, currentProcess, lastFilledLength, complete, endTime, mu,
                   printChannel, local, ncalls, printer, waiter, shown, panicked, h>>

\* close(pb.printChannel) (line 287): closing a closed channel panics.
Complete_Close(t) ==
    /\ At(t, "c_close")
    /\ IF printChannel = "closed"
       THEN /\ panicked' = "close of closed channel"
            /\ UNCHANGED <<printChannel, pc, local, h>>
       ELSE /\ printChannel' = "closed"
            /\ h' = [h EXCEPT !.closes = @ + 1, !.completeReturns = @ + 1]
            /\ Return(t)
            /\ UNCHANGED panicked
    /\ UNCHANGED <<config, pkg, currentProcess, lastFilledLength, complete, endTime, ticker, mu,
                   ncalls, printer, waiter, shown>>

\* ---------------------------------------------------------- print channel
SendLabels == {"ub_send", "as_send", "c_send"}
AfterSend(label) == CASE label = "ub_send" -> "ub_sent"
                      [] label = "as_send" -> "as_sent"
                      [] label = "c_send" -> "c_sent"
\* The barMessage goroutine t is sending (lines 240, 323 and 277).
Sending(t) == IF pc[t] = "c_send"
              THEN Message(barLength, Hundred)
              ELSE Message(local[t].filledLength, local[t].percentage)

\* A send on the closed channel panics, whether the channel was closed before the
\* send began or while the sender was blocked in it.
SendOnClosed(t) ==
    /\ Running
    /\ pc[t] \in SendLabels
    /\ printChannel = "closed"
    /\ panicked' = "send on closed channel"
    /\ UNCHANGED <<config, pkg, fields, pc, local, ncalls, printer, waiter, shown, h>>

\* ----------------------------------------------------------------- Report
\* A Report that takes a counter at total for a finished bar.
ReportError_AtTotal ==
    IF ~complete /\ currentProcess # total THEN "progress is not yet complete" ELSE "nil"

\* if !pb.complete { return errors.New("progress is not yet complete") } (lines 351-353).
ReportError == IF ~complete THEN "progress is not yet complete" ELSE "nil"

\* func (pb *ProgressBar) Report(valueWidth int) error, called once the callers
\* have returned: the history keeps the error, whether the table was printed, and
\* the Completed Tasks and End Time rows.
Report ==
    /\ Running
    /\ AllIdle
    /\ h.reports < MaxReports
    /\ h' = [h EXCEPT !.reports = @ + 1,
                      !.reportError = ReportError,
                      !.reportPrinted = (ReportError = "nil"),
                      !.reportCompleted = IF ReportError = "nil" THEN currentProcess ELSE -1,
                      !.reportEndTime = IF ReportError = "nil" THEN endTime ELSE "none"]
    /\ UNCHANGED <<config, pkg, fields, pc, local, ncalls, printer, waiter, shown, panicked>>

\* ---------------------------------------------------------- ListenPrinter
\* A range loop that ends whether or not the channel is closed.
RangeEnds_Early(ch) == ch \in {"open", "closed"}

\* for msg := range pb.printChannel ends when the channel is closed (and, being
\* unbuffered, holds nothing).
RangeEnds(ch) == ch = "closed"

\* go pb.ListenPrinter()
ListenPrinter_Start ==
    /\ Running
    /\ printer = "off"
    /\ printer' = "recv"
    /\ UNCHANGED <<config, pkg, fields, pc, local, ncalls, waiter, shown, panicked, h>>

\* for msg := range pb.printChannel { ... fmt.Printf(...) } (lines 157-180): the
\* unbuffered channel hands one sender's message over, and the frame is printed.
ListenPrinter_Receive(t) ==
    /\ Running
    /\ printer = "recv"
    /\ printChannel = "open"
    /\ pc[t] \in SendLabels
    /\ shown' = Sending(t)
    /\ Goto(t, AfterSend(pc[t]))
    /\ h' = [h EXCEPT !.finalFrames = @ + (IF pc[t] = "c_send" THEN 1 ELSE 0),
                      !.lastKind = IF pc[t] = "c_send" THEN "final" ELSE "update"]
    /\ UNCHANGED <<config, pkg, fields, local, ncalls, printer, waiter, panicked>>

\* The range loop ends when the channel is closed (line 180); the goroutine then
\* blocks in pb.finishBar <- struct{}{} (line 183).
ListenPrinter_Exit ==
    /\ Running
    /\ printer = "recv"
    /\ RangeEnds(printChannel)
    /\ printer' = "signal"
    /\ UNCHANGED <<config, pkg, fields, pc, local, ncalls, waiter, shown, panicked, h>>

\* ----------------------------------------------------- WaitForPrinterStop
\* pb.finishBar is closed once a goroutine of WaitForPrinterStop has run line 192.
FinishBarClosed == \E w \in Waits : waiter[w] = "ready"

\* finish := make(chan struct{}); go func() { ... }(); return finish (lines 187-203),
\* called by the goroutine that launches the producers, before it launches them or
\* after its call of Complete.  The calls are numbered in the order they are made.
WaitForPrinterStop_Call(w) ==
    /\ Running
    /\ waiter[w] = "none"
    /\ \A v \in 1..(w - 1) : waiter[v] # "none"
    /\ AllIdle
    /\ CallsStarted = 0 \/ h.completeCalls > 0
    /\ waiter' = [waiter EXCEPT ![w] = "recv"]
    /\ UNCHANGED <<config, pkg, fields, pc, local, ncalls, printer, shown, panicked, h>>

\* <-pb.finishBar (line 191).  On the closed channel the receive returns at once;
\* on the open, unbuffered channel it meets pb.finishBar <- struct{}{} (line 183)
\* and ListenPrinter returns.
WaitForPrinterStop_Receive(w) ==
    /\ Running
    /\ waiter[w] = "recv"
    /\ IF FinishBarClosed
       THEN UNCHANGED <<printer, h>>
       ELSE /\ printer = "signal"
            /\ printer' = "done"
            /\ h' = [h EXCEPT !.signals = @ + 1]
    /\ waiter' = [waiter EXCEPT ![w] = "close"]
    /\ UNCHANGED <<config, pkg, fields, pc, local, ncalls, shown, panicked>>

\* close(pb.finishBar); fmt.Printf("\n"); close(finish) (lines 192-198): the handle
\* becomes ready.  Closing a channel that is already closed panics.
WaitForPrinterStop_Finish(w) ==
    /\ Running
    /\ waiter[w] = "close"
    /\ IF FinishBarClosed
       THEN /\ panicked' = "close of closed channel"
            /\ UNCHANGED waiter
       ELSE /\ waiter' = [waiter EXCEPT ![w] = "ready"]
            /\ UNCHANGED panicked
    /\ h' = [h EXCEPT !.finishBarCloses = @ + 1]
    /\ UNCHANGED <<config, pkg, fields, pc, local, ncalls, printer, shown>>

\* ------------------------------------------------------------------ timer
\* The timer of time.After (lines 142, 246 and 329) fires: its channel holds one value.
Timer_Expire ==
    /\ Running
    /\ ticker = "armed"
    /\ ticker' = "fired"
    /\ h' = [h EXCEPT !.unspent = @ + 1]
    /\ UNCHANGED <<config, pkg, currentProcess, lastFilledLength, complete, endTime, mu,
                   printChannel, pc, local, ncalls, printer, waiter, shown, panicked>>

\* ------------------------------------------------------------------- Next
UpdateBar(t) ==
    \/ UpdateBar_Call(t)
    \/ UpdateBar_Above(t)
    \/ UpdateBar_Cap(t)
    \/ UpdateBar_Add(t)
    \/ UpdateBar_Calc(t)
    \/ UpdateBar_Select(t)
    \/ UpdateBar_Sent(t)
    \/ UpdateBar_Final(t)
    \/ UpdateBar_Stop(t)

AddSpecificTimes(t) ==
    \/ \E steps \in StepValues : AddSpecificTimes_Call(t, steps)
    \/ AddSpecificTimes_Cap(t)
    \/ AddSpecificTimes_Add(t)
    \/ AddSpecificTimes_Calc(t)
    \/ AddSpecificTimes_Select(t)
    \/ AddSpecificTimes_Sent(t)
    \/ AddSpecificTimes_Final(t)
    \/ AddSpecificTimes_Stop(t)

Complete(t) ==
    \/ Complete_Call(t)
    \/ Complete_Check(t)
    \/ Complete_EndTime(t)
    \/ Complete_Store(t)
    \/ Complete_Flag(t)
    \/ Complete_Stop(t)
    \/ Complete_Close(t)

ListenPrinter ==
    \/ ListenPrinter_Start
    \/ \E t \in Threads : ListenPrinter_Receive(t)
    \/ ListenPrinter_Exit

\* Every goroutine of the program: callers of the three operations, the renderer
\* and the runtime's timer.
Next ==
    \/ \E t \in Threads : UpdateBar(t)
    \/ \E t \in Threads : AddSpecificTimes(t)
    \/ \E t \in Threads : Complete(t)
    \/ \E t \in Threads : SendOnClosed(t)
    \/ ListenPrinter
    \/ Timer_Expire

Spec == Init /\ [][Next]_vars

\* A bar whose renderer was launched (go pb.ListenPrinter()) before any producer
\* runs, used by concurrent producers.
InitRendering ==
    /\ total \in Totals
    /\ barLength \in BarLengths
    /\ updateInterval \in UpdateIntervals
    /\ callers = "concurrent"
    /\ currentProcess = 0
    /\ lastFilledLength = 0
    /\ complete = FALSE
    /\ endTime = "zero"
    /\ ticker = InitialTicker(updateInterval)
    /\ mu = 0
    /\ printChannel = "open"
    /\ pc = [t \in Threads |-> "idle"]
    /\ local = [t \in Threads |-> NoLocals]
    /\ ncalls = [t \in Threads |-> 0]
    /\ printer = "recv"
    /\ waiter = [w \in Waits |-> "none"]
    /\ shown = NoFrame
    /\ panicked = "none"
    /\ h = NoHistory
    /\ PackageReady

\* Producers that only call UpdateBar, with the renderer and the timer.
NextUpdateBar ==
    \/ \E t \in Threads : UpdateBar(t)
    \/ \E t \in Threads : ListenPrinter_Receive(t)
    \/ Timer_Expire

SpecUpdateBar == InitRendering /\ [][NextUpdateBar]_vars

\* Producers calling UpdateBar and AddSpecificTimes, with the renderer and the timer.
NextProducers ==
    \/ \E t \in Threads : UpdateBar(t)
    \/ \E t \in Threads : AddSpecificTimes(t)
    \/ \E t \in Threads : ListenPrinter_Receive(t)
    \/ Timer_Expire

SpecProducers == InitRendering /\ [][NextProducers]_vars

\* A program that launches the renderer and makes its calls one after the other,
\* Report among them.
InitSequential ==
    /\ total \in Totals
    /\ barLength \in BarLengths
    /\ updateInterval \in TimeControls
    /\ callers = "sequential"
    /\ currentProcess = 0
    /\ lastFilledLength = 0
    /\ complete = FALSE
    /\ endTime = "zero"
    /\ ticker = InitialTicker(updateInterval)
    /\ mu = 0
    /\ printChannel = "open"
    /\ pc = [t \in Threads |-> "idle"]
    /\ local = [t \in Threads |-> NoLocals]
    /\ ncalls = [t \in Threads |-> 0]
    /\ printer = "recv"
    /\ waiter = [w \in Waits |-> "none"]
    /\ shown = NoFrame
    /\ panicked = "none"
    /\ h = NoHistory
    /\ PackageReady

NextSequential ==
    \/ \E t \in Threads : UpdateBar(t)
    \/ \E t \in Threads : AddSpecificTimes(t)
    \/ \E t \in Threads : Complete(t)
    \/ \E t \in Threads : ListenPrinter_Receive(t)
    \/ ListenPrinter_Exit
    \/ Report
    \/ Timer_Expire

SpecSequential == InitSequential /\ [][NextSequential]_vars

\* A program that launches the renderer, runs its producers concurrently, waits
\* for them, calls Complete, and may call WaitForPrinterStop.  The bar is built
\* with no option: NewProgressBar(name, total, MaxBarLength).
InitJoined ==
    /\ total \in {1, MaxTotal}
    /\ barLength = MaxBarLength
    /\ updateInterval = DefaultUpdateInterval
    /\ callers = "joined"
    /\ currentProcess = 0
    /\ lastFilledLength = 0
    /\ complete = FALSE
    /\ endTime = "zero"
    /\ ticker = InitialTicker(updateInterval)
    /\ mu = 0
    /\ printChannel = "open"
    /\ pc = [t \in Threads |-> "idle"]
    /\ local = [t \in Threads |-> NoLocals]
    /\ ncalls = [t \in Threads |-> 0]
    /\ printer = "recv"
    /\ waiter = [w \in Waits |-> "none"]
    /\ shown = NoFrame
    /\ panicked = "none"
    /\ h = NoHistory
    /\ PackageReady

WaitForPrinterStop(w) ==
    \/ WaitForPrinterStop_Call(w)
    \/ WaitForPrinterStop_Receive(w)
    \/ WaitForPrinterStop_Finish(w)

NextJoined ==
    \/ \E t \in Threads : UpdateBar(t)
    \/ \E t \in Threads : AddSpecificTimes(t)
    \/ \E t \in Threads : Complete(t)
    \/ \E t \in Threads : ListenPrinter_Receive(t)
    \/ ListenPrinter_Exit
    \/ WaitForPrinterStop(1)
    \/ Timer_Expire

SpecJoined == InitJoined /\ [][NextJoined]_vars

\* The steps of a call that goroutine t has already started.
Continue(t) ==
    \/ UpdateBar_Above(t)
    \/ UpdateBar_Cap(t)
    \/ UpdateBar_Add(t)
    \/ UpdateBar_Calc(t)
    \/ UpdateBar_Select(t)
    \/ UpdateBar_Sent(t)
    \/ UpdateBar_Final(t)
    \/ UpdateBar_Stop(t)
    \/ AddSpecificTimes_Cap(t)
    \/ AddSpecificTimes_Add(t)
    \/ AddSpecificTimes_Calc(t)
    \/ AddSpecificTimes_Select(t)
    \/ AddSpecificTimes_Sent(t)
    \/ AddSpecificTimes_Final(t)
    \/ AddSpecificTimes_Stop(t)
    \/ Complete_Check(t)
    \/ Complete_EndTime(t)
    \/ Complete_Store(t)
    \/ Complete_Flag(t)
    \/ Complete_Stop(t)
    \/ Complete_Close(t)

\* A step of a goroutine that is running: a started call, the renderer or a
\* registered waiter.
Progress ==
    \/ \E t \in Threads : Continue(t)
    \/ \E t \in Threads : ListenPrinter_Receive(t)
    \/ ListenPrinter_Exit
    \/ WaitForPrinterStop_Receive(1)
    \/ WaitForPrinterStop_Finish(1)

\* The scheduler does not stop while some goroutine can take a step.  Nothing
\* obliges the program to make a call, and the timer may take any time to fire.
Fairness == WF_vars(Progress)

SpecJoinedFair == InitJoined /\ [][NextJoined]_vars /\ Fairness

\* A program that imports the package and calls SetRandomTotalCount and
\* ForceReloadConfig, for every file and every tagging of the model.  It builds a bar
\* with no option and leaves it alone.
InitConfig ==
    /\ total = 1
    /\ barLength = 1
    /\ updateInterval = DefaultUpdateInterval
    /\ callers = "sequential"
    /\ currentProcess = 0
    /\ lastFilledLength = 0
    /\ complete = FALSE
    /\ endTime = "zero"
    /\ ticker = InitialTicker(updateInterval)
    /\ mu = 0
    /\ printChannel = "open"
    /\ pc = [t \in Threads |-> "idle"]
    /\ local = [t \in Threads |-> NoLocals]
    /\ ncalls = [t \in Threads |-> 0]
    /\ printer = "off"
    /\ waiter = [w \in Waits |-> "none"]
    /\ shown = NoFrame
    /\ panicked = "none"
    /\ h = NoHistory
    /\ configFile \in ConfigFiles
    /\ tags \in ConfigTags
    /\ unitTestConfig = ZeroConfig
    /\ ones = "fresh"
    /\ configParseErr = "nil"
    /\ stage = "load"
    /\ calls = NoCalls

NextConfig ==
    \/ ParseDefault_Parse
    \/ ParseDefault_Finish
    \/ PackageInit_Panic
    \/ \E value \in CountValues : SetRandomTotalCount(value)
    \/ ForceReloadConfig

SpecConfig == InitConfig /\ [][NextConfig]_vars

\* The same program calling WaitForPrinterStop up to MaxWaits times on its bar.
NextWaits ==
    \/ \E t \in Threads : UpdateBar(t)
    \/ \E t \in Threads : AddSpecificTimes(t)
    \/ \E t \in Threads : Complete(t)
    \/ \E t \in Threads : ListenPrinter_Receive(t)
    \/ ListenPrinter_Exit
    \/ \E w \in Waits : WaitForPrinterStop(w)
    \/ Timer_Expire

SpecWaits == InitJoined /\ [][NextWaits]_vars

\* ------------------------------------------------------- one call, alone
\* What a call leaves behind when it runs from entry to return with no other
\* goroutine calling, the renderer receiving its frame and the timer in status tk.
Outcome(cur, last, tk, frame) ==
    [currentProcess |-> cur, lastFilledLength |-> last, ticker |-> tk, frame |-> frame]

\* UpdateBar (lines 205-262).
UpdateBarOutcome(cur, last, tk) ==
    IF UpdateBarAtCeiling(cur, total) THEN Outcome(cur, last, tk, NoFrame)
    ELSE IF cur > total THEN Outcome(total, last, tk, NoFrame)
    ELSE LET c == AtomicAddUint32(cur, 1)
             progress == UpdateBarProgress(c, total)
             f == FilledLength(progress, barLength)
             emit == FillChanged(f, last) /\ TickerReady(tk)
         IN  Outcome(c,
                     IF emit THEN f ELSE last,
                     IF c = total THEN "nil" ELSE IF emit THEN "armed" ELSE tk,
                     IF emit THEN Message(f, Percentage(progress)) ELSE NoFrame)

\* AddSpecificTimes (lines 292-345).
AddSpecificTimesOutcome(cur, last, tk, steps) ==
    IF AddSpecificTimesAtCeiling(cur, total) THEN Outcome(total, last, tk, NoFrame)
    ELSE LET c == AtomicAddUint32(cur, steps)
             progress == AddSpecificTimesProgress(c, total)
             f == FilledLength(progress, barLength)
             emit == FillChanged(f, last) /\ TickerReady(tk)
         IN  Outcome(c,
                     IF emit THEN f ELSE last,
                     IF c = total THEN "nil" ELSE IF emit THEN "armed" ELSE tk,
                     IF emit THEN Message(f, Percentage(progress)) ELSE NoFrame)

\* =================================================================== claims
UpdateSendLabels == {"ub_send", "as_send"}
CompletionFrame == Message(barLength, Hundred)
SameFrame(a, b) == a.filledLength = b.filledLength /\ FracEq(a.percentage, b.percentage)
OnlyUpdateBar == ~h.usedAddSpecificTimes /\ h.completeCalls = 0
OnlyAddSpecificTimes == ~h.usedUpdateBar /\ h.completeCalls = 0

\* C1: after a sequence of AddSpecificTimes calls on a fresh bar whose steps sum to
\* more than total, currentProcess is exactly total when the last call has returned.
C1_ClampedAfterLastCall ==
    (/\ callers = "sequential"
     /\ OnlyAddSpecificTimes
     /\ AllIdle
     /\ h.sumSteps > total) => currentProcess = total

\* C2: when concurrent producers have made, between them, exactly total UpdateBar
\* calls (N producers with M calls each and total = N*M among them) and every call
\* has returned, currentProcess is the number of calls: none is lost, none counted twice.
C2_NoLostUpdate ==
    (OnlyUpdateBar /\ AllIdle /\ Running /\ CallsStarted <= total)
        => currentProcess = CallsStarted

\* N producers have each made one call, with total = N, and the counter is N.
C2_Witness ==
    /\ OnlyUpdateBar
    /\ AllIdle
    /\ \A t \in Threads : ncalls[t] = 1
    /\ total = NThreads
    /\ currentProcess = total

\* C3: under concurrent UpdateBar callers the counter stays within 0..total.
C3_CounterInRange ==
    OnlyUpdateBar => (0 <= currentProcess /\ currentProcess <= total)

C5_CompleteIdempotent ==
    (/\ callers = "sequential"
     /\ h.completeCalls >= 2
     /\ AllIdle \/ ~Running)
        => (/\ Running
            /\ h.finalFrames = 1
            /\ h.endTimeWrites = 1
            /\ h.closes = 1)

\* C6: with Complete called from several goroutines (and no other call), complete
\* flips at most once, endTime is assigned at most once, and the print channel is
\* closed at most once and only after complete is true.
C6_OneCompletion ==
    CallsStarted = 0
        => (/\ h.flips <= 1
            /\ h.endTimeWrites <= 1
            /\ h.closes <= 1
            /\ panicked # "close of closed channel"
            /\ printChannel = "closed" => complete)

\* C7: with producers racing one Complete call that has sent its frame and set
\* complete, nothing is sent on the closed print channel.
C7_NoSendAfterClose ==
    (h.completeCalls <= 1 /\ complete) => panicked # "send on closed channel"

\* C8: with UpdateBar producers racing one Complete call that has sent its frame
\* and set complete, the last frame the renderer has received when the channel
\* closes is the completion frame.
C8_CompletionFrameLast ==
    (~h.usedAddSpecificTimes /\ h.completeCalls = 1 /\ complete /\ printChannel = "closed")
        => SameFrame(shown, CompletionFrame)

\* C9: the frames the renderer receives never decrease in filledLength, here for
\* UpdateBar and AddSpecificTimes calls made one after the other.
C9_FramesMonotonic ==
    [][(callers = "sequential" /\ h.completeCalls = 0 /\ shown' # shown)
          => shown'.filledLength >= shown.filledLength]_vars

\* C10: the throttle gate.  An update emits a frame only by taking the value of a
\* fired timer, so frames never outnumber expirations; the deadline is re-armed
\* before the emitter unlocks; and every update, throttled or not, advances the counter.
C10_Throttle ==
    /\ h.unspent >= 0
    /\ \A t \in Threads : pc[t] \in UpdateSendLabels => ticker \in {"drained", "nil"}
    /\ ticker = "drained" => mu # 0
    /\ (AllIdle /\ h.completeCalls = 0 /\ h.sumSteps <= total)
           => currentProcess = h.sumSteps

\* One update emitted a frame and a later one was throttled: the counter is ahead
\* of the last frame.
C10_Witness ==
    /\ AllIdle
    /\ h.lastKind = "update"
    /\ h.sumSteps <= total
    /\ FilledLength(UpdateBarProgress(currentProcess, total), barLength) > lastFilledLength
    /\ lastFilledLength > 0

\* A step of the run is a call of Report.
ReportCalled == h'.reports = h.reports + 1

\* C11: a Report called while complete is false returns the "not yet complete"
\* error, prints nothing and leaves every field of the bar as it was, whatever the
\* counter.
C11_ReportNotComplete ==
    [][(ReportCalled /\ ~complete)
          => (/\ h'.reportError = "progress is not yet complete"
              /\ ~h'.reportPrinted
              /\ fields' = fields
              /\ config' = config
              /\ shown' = shown)]_vars

\* Report has failed on a bar that updates alone had brought to total.
C11_Witness ==
    /\ h.reports > 0
    /\ h.reportError = "progress is not yet complete"
    /\ h.completeCalls = 0
    /\ currentProcess = total
    /\ ~complete

\* C12: a Report called after Complete has returned, whatever the earlier updates
\* left in the counter, returns no error, shows Completed Tasks equal to total and
\* an end time that Complete has set.
C12_ReportAfterComplete ==
    [][(ReportCalled /\ h.completeCalls >= 1)
          => (/\ h'.reportError = "nil"
              /\ h'.reportCompleted = total
              /\ h'.reportEndTime = "set")]_vars

\* C13: the handle of WaitForPrinterStop is ready only after the print channel has
\* been closed and ListenPrinter has received every frame sent on it, the final
\* frame included, and has left its loop; ListenPrinter signals finishBar once.
C13_HandleAfterDrain ==
    /\ h.signals <= 1
    /\ waiter[1] \in {"close", "ready"}
          => (/\ printChannel = "closed"
              /\ printer = "done"
              /\ h.signals = 1
              /\ \A t \in Threads : pc[t] \notin SendLabels
              /\ complete => (h.finalFrames = 1 /\ SameFrame(shown, CompletionFrame)))

\* The handle is ready after producers have run and Complete has sent its frame.
C13_Witness ==
    /\ waiter[1] = "ready"
    /\ complete
    /\ h.finalFrames = 1
    /\ CallsStarted > 0

\* C14: with the renderer running, the calls that have started all return (whenever
\* a call is running, a state follows in which none is), and once Complete has been
\* called and a waiter is registered the handle becomes ready.
C14_NoDeadlock ==
    /\ (~AllIdle) ~> AllIdle
    /\ (waiter[1] # "none" /\ h.completeCalls > 0) ~> (waiter[1] = "ready")

\* Every producer has made a call, one of them handed a frame over, Complete has
\* returned and the handle is ready.
C14_Witness ==
    /\ waiter[1] = "ready"
    /\ AllIdle
    /\ \A t \in Threads : ncalls[t] > 0
    /\ lastFilledLength > 0
    /\ h.completeCalls = 1

\* C15: once the print channel is closed, ListenPrinter returns, whether or not
\* WaitForPrinterStop is ever called.
C15_RendererReturns == (printChannel = "closed") ~> (printer = "done")

SameOutcome(a, b) ==
    /\ a.currentProcess = b.currentProcess
    /\ a.lastFilledLength = b.lastFilledLength
    /\ a.ticker = b.ticker
    /\ SameFrame(a.frame, b.frame)

\* C16: from any state of the bar in which no call is running, UpdateBar() and
\* AddSpecificTimes(1) leave the same counter, lastFilledLength and timer, and emit
\* the same frame or none.
C16_UpdateBarIsAddOne ==
    (Running /\ AllIdle /\ printChannel = "open")
        => SameOutcome(UpdateBarOutcome(currentProcess, lastFilledLength, ticker),
                       AddSpecificTimesOutcome(currentProcess, lastFilledLength, ticker, 1))

\* The places of a call whose next step reads or writes pb.ticker or
\* pb.lastFilledLength.
TickerLabels == {"ub_select", "ub_sent", "ub_stop", "as_select", "as_sent", "as_stop", "c_stop"}

\* C17: a goroutine about to read or write pb.ticker or pb.lastFilledLength holds
\* pb.mu.
C17_TickerUnderMutex ==
    \A t \in Threads : pc[t] \in TickerLabels => mu = t

\* C18: the frame an update is about to send carries the fill and the percentage
\* of the counter as its increment left it (calls made one after the other, counter
\* within total).
C18_FrameCarriesCounter ==
    \A t \in Threads :
        (callers = "sequential" /\ pc[t] \in UpdateSendLabels /\ currentProcess <= total)
            => (/\ local[t].filledLength = (currentProcess * barLength) \div total
                /\ FracEq(local[t].percentage, Frac(100 * currentProcess, total)))

PercentageInRange(p) == FracLeq(Frac(0, 1), p) /\ FracLeq(p, Hundred)

\* C19: every frame being sent, and the frame received last, has a percentage
\* within 0..100.
C19_PercentageInRange ==
    /\ \A t \in Threads : pc[t] \in SendLabels => PercentageInRange(Sending(t).percentage)
    /\ PercentageInRange(shown.percentage)

\* An update frame computed from a counter above total was received with 100.
C19_Witness ==
    /\ h.lastKind = "update"
    /\ currentProcess > total
    /\ h.completeCalls = 0
    /\ shown.filledLength > barLength
    /\ FracEq(shown.percentage, Hundred)

\* C20: an update reaches its send only with a fill that differs from
\* lastFilledLength, and an update frame received right after another update frame
\* carries a different fill.
C20_NoDuplicateFrames ==
    [][/\ \A t \in Threads :
              pc[t] \in UpdateSendLabels => local[t].filledLength # lastFilledLength
       /\ \A t \in Threads :
              (pc[t] \in UpdateSendLabels /\ pc'[t] = AfterSend(pc[t]) /\ h.lastKind = "update")
                  => shown'.filledLength # shown.filledLength]_vars

\* Two update frames in a row: the second carries fill 0, so a frame with another
\* fill came before it.
C20_Witness ==
    /\ h.lastKind = "update"
    /\ h.completeCalls = 0
    /\ shown.filledLength = 0
    /\ lastFilledLength = 0
    /\ AllIdle

\* A step in which goroutine t enters UpdateBar or AddSpecificTimes, and the step in
\* which its AddSpecificTimes call stores total and returns.
StartsUpdate(t) == ncalls'[t] = ncalls[t] + 1 /\ h'.sumSteps > h.sumSteps
CapReturns(t) == pc[t] = "as_cap" /\ pc'[t] = "idle"

\* C21: once currentProcess = total, a call of UpdateBar or AddSpecificTimes, for
\* any steps, returns with currentProcess, lastFilledLength, complete and endTime
\* as they were, and sends no frame.
C21_IdempotentAtCeiling ==
    [][\A t \in Threads :
          (currentProcess = total /\ (StartsUpdate(t) \/ CapReturns(t))) =>
              /\ pc'[t] \in {"idle", "as_cap"}
              /\ UNCHANGED <<currentProcess, lastFilledLength, complete, endTime, shown>>]_vars

C21_Witness ==
    /\ AllIdle
    /\ currentProcess = total
    /\ h.usedUpdateBar
    /\ h.usedAddSpecificTimes
    /\ h.completeCalls = 0
    /\ h.sumSteps > total

\* The positions of a call of UpdateBar or AddSpecificTimes between its entry and
\* its return.
ProducerLabels ==
    {"ub_above", "ub_cap", "ub_lock", "ub_calc", "ub_select", "ub_send", "ub_sent",
     "ub_final", "ub_stop",
     "as_cap", "as_lock", "as_calc", "as_select", "as_send", "as_sent", "as_final",
     "as_stop"}
ProducerStep(t) == StartsUpdate(t) \/ (pc[t] \in ProducerLabels /\ pc'[t] # pc[t])

\* C22: once complete is true, no step of an UpdateBar or AddSpecificTimes call,
\* begun later or already in flight, changes currentProcess, lastFilledLength, the
\* timer or endTime.
C22_ReadOnlyAfterComplete ==
    [][\A t \in Threads :
          (complete /\ ProducerStep(t)) =>
              UNCHANGED <<currentProcess, lastFilledLength, ticker, endTime>>]_vars

\* C24: every frame sent on the print channel has 0 <= filledLength <= barLength,
\* whatever the counter.
C24_FillWithinBar ==
    \A t \in Threads :
        pc[t] \in SendLabels =>
            (0 <= Sending(t).filledLength /\ Sending(t).filledLength <= barLength)

\* C26: a bar built with updateInterval <= 0 has no timer: no call of UpdateBar
\* or AddSpecificTimes reaches a send, and the renderer receives no frame but the
\* final frame of Complete.
C26_NoTimerNoUpdateFrames ==
    updateInterval <= 0 =>
        /\ ticker = "nil"
        /\ \A t \in Threads : pc[t] \notin {"ub_send", "ub_sent", "as_send", "as_sent"}
        /\ h.lastKind # "update"
        /\ shown = NoFrame \/ SameFrame(shown, CompletionFrame)

C26_Witness ==
    /\ updateInterval = 0
    /\ AllIdle
    /\ h.usedUpdateBar
    /\ h.usedAddSpecificTimes
    /\ currentProcess = total
    /\ complete
    /\ h.finalFrames = 1
    /\ SameFrame(shown, CompletionFrame)

\* C25: WaitForPrinterStop may be called more than once on a bar: finishBar is
\* closed at most once, and no waiter closes it again.
C25_FinishBarClosedOnce ==
    /\ h.finishBarCloses <= 1
    /\ panicked # "close of closed channel"

\* C23: after _parseDefault, a field whose key is in the file holds the value of
\* the file, an explicit false, "" or 0 included, and a field that has no default
\* tag and no key in the file is left at its zero value.
C23_FileValuesKept ==
    stage = "parsed" =>
        /\ configFile.IsInsideProject # "" =>
               unitTestConfig.IsInsideProject = JSONBool(configFile.IsInsideProject)
        /\ configFile.TestRecordPath # "" =>
               unitTestConfig.TestRecordPath = JSONString(configFile.TestRecordPath)
        /\ configFile.RandomTotalCount # "" =>
               unitTestConfig.RandomTotalCount = JSONNumber(configFile.RandomTotalCount)
        /\ (tags.IsInsideProject = "" /\ configFile.IsInsideProject = "") =>
               unitTestConfig.IsInsideProject = ZeroConfig.IsInsideProject
        /\ (tags.TestRecordPath = "" /\ configFile.TestRecordPath = "") =>
               unitTestConfig.TestRecordPath = ZeroConfig.TestRecordPath
        /\ (tags.RandomTotalCount = "" /\ configFile.RandomTotalCount = "") =>
               unitTestConfig.RandomTotalCount = ZeroConfig.RandomTotalCount

\* C27: when ForceReloadConfig returns, GetDefaultConfig() is what ParseDefault
\* gives for an empty struct on its first run, whatever SetRandomTotalCount stored.
C27_ReloadRestoresLoadedValues ==
    [][calls'.reloads = calls.reloads + 1 =>
           GetDefaultConfig' = ParseDefault(ZeroConfig, "fresh").cfg]_vars

====
